---- MODULE Spec2Model ----
(***************************************************************************)
(* Model of the iced frame-buffer example (src/src/main.rs): the range     *)
(* remap fit_range, the two loops of render_bg_image (scene-linear         *)
(* synthesis, display encoding) and the ApplicationState message handler.  *)
(*                                                                         *)
(* f32 values are records [k, n, d]: k = "fin" is the rational n/d in      *)
(* lowest terms (d > 0), k = "inf" is +inf (n = 1) or -inf (n = -1),       *)
(* k = "nan" is NaN.  Every arithmetic result is rounded to a 24-bit       *)
(* significand, round-half-to-even, as IEEE-754 binary32 does.  Exponent   *)
(* overflow, subnormals and the sign of zero are outside the values the    *)
(* model reaches and are not represented.                                  *)
(***************************************************************************)
EXTENDS Integers, Sequences, FiniteSets, TLC

VARIABLES
    pc,                     \* position of the process: inside render_bg_image, inside new(), or in the event loop
    iter,                   \* [y, x]: the for-loop variables of the iteration about to run
    index,                  \* render_bg_image: index
    linear_render_buffer,   \* render_bg_image: linear_render_buffer, a function on 0..SIZE-1
    body,                   \* locals of the loop body that ran last: x, y, u, v, final_color
    written,                \* history: per pixel slot, the (x, y) of every write made to it
    display_buffer,         \* render_bg_image: display_buffer
    render_calls,           \* number of calls of render_bg_image so far
    file_name,              \* ApplicationState.file_name
    file_name_with_ext,     \* ApplicationState.file_name_with_ext
    rendered_image,         \* ApplicationState.rendered_image
    stderr,                 \* lines written by eprintln!
    files,                  \* files the process has created on disk
    enc_in,                 \* two scene-linear buffers handed to the display encoder
    enc_out,                \* the display buffers produced from them
    fit_args,               \* arguments of a call of fit_range
    fit_outcome             \* how that call ended

vars == <<pc, iter, index, linear_render_buffer, body, written, display_buffer,
          render_calls, file_name, file_name_with_ext, rendered_image, stderr,
          files, enc_in, enc_out, fit_args, fit_outcome>>

---------------------------------------------------------------------------
(* Bounds of the model *)

\* RENDER_BUFFER_WIDTH is 2^10 in the source; the model keeps it a power of two.
LogWidth == 2
\* RENDER_BUFFER_HEIGHT is 2^10 in the source; the model keeps it a power of two.
LogHeight == 1
\* longest file name typed into the text field
MaxNameLen == 2
\* most lines the model lets eprintln! write
MaxLog == 4
\* fit_range is called with arguments in -1..FitMax
FitMax == 2
\* pixels of the buffers handed to the display encoder on its own
EncPixels == 2

---------------------------------------------------------------------------
(* f32 arithmetic *)

Abs(n) == IF n < 0 THEN -n ELSE n

Sign(n) == IF n < 0 THEN -1 ELSE IF n = 0 THEN 0 ELSE 1

RECURSIVE Gcd(_, _)
Gcd(a, b) == IF b = 0 THEN a ELSE Gcd(b, a % b)

RECURSIVE BitLen(_)
BitLen(m) == IF m = 0 THEN 0 ELSE 1 + BitLen(m \div 2)

IsPow2(d) == d = 2 ^ (BitLen(d) - 1)

\* a / b rounded to the nearest integer, ties to even (a >= 0, b > 0)
RoundDivEven(a, b) ==
    LET q == a \div b
        r == a % b
    IN  IF 2 * r < b THEN q
        ELSE IF 2 * r > b THEN q + 1
        ELSE IF q % 2 = 0 THEN q ELSE q + 1

\* the rational n/d (d # 0) in lowest terms
Fin(n, d) ==
    LET g == Gcd(Abs(n), Abs(d))
        s == IF d < 0 THEN -1 ELSE 1
    IN  [k |-> "fin", n |-> s * (n \div g), d |-> Abs(d) \div g]

NaN == [k |-> "nan", n |-> 0, d |-> 1]

Inf(s) == [k |-> "inf", n |-> s, d |-> 1]

SignF(a) == Sign(a.n)

\* the binary32 nearest to the rational n/d (d > 0)
RoundF32(n, d) ==
    LET f == Fin(n, d)
        m == Abs(f.n)
    IN  IF m = 0 THEN f
        ELSE IF IsPow2(f.d)
        THEN IF BitLen(m) <= 24 THEN f
             ELSE LET t == BitLen(m) - 24
                  IN  Fin(Sign(f.n) * RoundDivEven(m, 2 ^ t) * (2 ^ t), f.d)
        ELSE LET s0 == 23 + BitLen(f.d) - BitLen(m)
                 s  == IF m * (2 ^ s0) < f.d * (2 ^ 23) THEN s0 + 1 ELSE s0
             IN  Fin(Sign(f.n) * RoundDivEven(m * (2 ^ s), f.d), 2 ^ s)

\* `n as f32` for a small integer n
FromInt(n) == Fin(n, 1)

FNeg(a) == IF a.k = "nan" THEN a ELSE [a EXCEPT !.n = -a.n]

FAdd(a, b) ==
    IF a.k = "nan" \/ b.k = "nan" THEN NaN
    ELSE IF a.k = "inf" /\ b.k = "inf" THEN IF a.n = b.n THEN a ELSE NaN
    ELSE IF a.k = "inf" THEN a
    ELSE IF b.k = "inf" THEN b
    ELSE RoundF32(a.n * b.d + b.n * a.d, a.d * b.d)

FSub(a, b) == FAdd(a, FNeg(b))

FMul(a, b) ==
    IF a.k = "nan" \/ b.k = "nan" THEN NaN
    ELSE IF a.k = "inf" \/ b.k = "inf"
    THEN IF a.n = 0 \/ b.n = 0 THEN NaN ELSE Inf(SignF(a) * SignF(b))
    ELSE RoundF32(a.n * b.n, a.d * b.d)

\* x / 0.0 is NaN for x = 0 and an infinity of x's sign otherwise: no trap, no panic
FDiv(a, b) ==
    IF a.k = "nan" \/ b.k = "nan" THEN NaN
    ELSE IF a.k = "inf" /\ b.k = "inf" THEN NaN
    ELSE IF a.k = "inf" THEN Inf(a.n * (IF b.n < 0 THEN -1 ELSE 1))
    ELSE IF b.k = "inf" THEN FromInt(0)
    ELSE IF b.n = 0 THEN IF a.n = 0 THEN NaN ELSE Inf(SignF(a))
    ELSE RoundF32(a.n * b.d * Sign(b.n), a.d * Abs(b.n))

IsFinite(a) == a.k = "fin"

\* a < b and a <= b for finite a, b
FLt(a, b) == a.n * b.d < b.n * a.d

FLe(a, b) == a.n * b.d <= b.n * a.d

---------------------------------------------------------------------------
(* Constants and pure functions of main.rs *)

RENDER_BUFFER_WIDTH == 2 ^ LogWidth

RENDER_BUFFER_HEIGHT == 2 ^ LogHeight

RENDER_BUFFER_SIZE == RENDER_BUFFER_WIDTH * RENDER_BUFFER_HEIGHT * 4

\* fit_range with the offset taken from the wrong end of the output range
fit_range_from_omax(x, imin, imax, omin, omax) ==
    FAdd(FDiv(FMul(FSub(omax, omin), FSub(x, imin)), FSub(imax, imin)), omax)

\* fit_range with the input range taken as inclusive of its last integer
fit_range_inclusive(x, imin, imax, omin, omax) ==
    FAdd(FDiv(FMul(FSub(omax, omin), FSub(x, imin)),
              FSub(FSub(imax, imin), FromInt(1))), omin)

\* Linear remap a value in one range into another range (no clamping)
fit_range(x, imin, imax, omin, omax) ==
    FAdd(FDiv(FMul(FSub(omax, omin), FSub(x, imin)), FSub(imax, imin)), omin)

\* color::acescg(r, g, b)
acescg(r, g, b) == [r |-> r, g |-> g, b |-> b]

\* Color::blend: componentwise self + (other - self) * factor
blend(self, other, factor) ==
    acescg(FAdd(self.r, FMul(FSub(other.r, self.r), factor)),
           FAdd(self.g, FMul(FSub(other.g, self.g), factor)),
           FAdd(self.b, FMul(FSub(other.b, self.b), factor)))

\* FinalColor with the horizontal blend running from green to red
FinalColor_swapped(u, v) ==
    LET red   == acescg(FromInt(1), FromInt(0), FromInt(0))
        green == acescg(FromInt(0), FromInt(1), FromInt(0))
        blue  == acescg(FromInt(0), FromInt(0), FromInt(1))
    IN  blend(blend(green, red, u), blend(red, blue, v), Fin(1, 2))

\* the gradient between the primaries in AcesCG at normalized coordinates (u, v)
FinalColor(u, v) ==
    LET red   == acescg(FromInt(1), FromInt(0), FromInt(0))
        green == acescg(FromInt(0), FromInt(1), FromInt(0))
        blue  == acescg(FromInt(0), FromInt(0), FromInt(1))
    IN  blend(blend(red, green, u), blend(red, blue, v), Fin(1, 2))

\* rendered_color, rebuilt from the channels of final_color
RenderedColor(final_color) == acescg(final_color.r, final_color.g, final_color.b)

\* the locals of the loop body once u and v are known
LoopLocals(xi, yi, u, v) ==
    [x |-> xi, y |-> yi, u |-> u, v |-> v, rendered_color |-> RenderedColor(FinalColor(u, v))]

\* the locals of one run of the synthesizer's loop body at loop variables (xi, yi)
LoopBody(xi, yi) ==
    LoopLocals(xi, yi,
               fit_range(FromInt(xi), FromInt(0), FromInt(RENDER_BUFFER_WIDTH),
                         FromInt(0), FromInt(1)),
               fit_range(FromInt(yi), FromInt(0), FromInt(RENDER_BUFFER_HEIGHT),
                         FromInt(0), FromInt(1)))

\* for y in (0..RENDER_BUFFER_HEIGHT).rev() { for x in 0..RENDER_BUFFER_WIDTH {..} }:
\* the first iteration, and the one after `it` (y = -1 once the loops are exhausted)
LoopFirst == [y |-> RENDER_BUFFER_HEIGHT - 1, x |-> 0]

\* LoopNext with the inner range written 0..=RENDER_BUFFER_WIDTH
LoopNext_inclusive(it) ==
    IF it.x + 1 <= RENDER_BUFFER_WIDTH THEN [y |-> it.y, x |-> it.x + 1]
    ELSE [y |-> it.y - 1, x |-> 0]

LoopNext(it) ==
    IF it.x + 1 < RENDER_BUFFER_WIDTH THEN [y |-> it.y, x |-> it.x + 1]
    ELSE [y |-> it.y - 1, x |-> 0]

LoopDone(it) == it.y < 0

\* the alpha written into slot index + 3
OpaqueAlpha == FromInt(1)

---------------------------------------------------------------------------
(* Display encoding *)

Max2(a, b) == IF FLt(a, b) THEN b ELSE a

\* PerceptualTonemapper::tonemap with default parameters.  The curve of the
\* colstodian crate is not part of this repository; this is a curve with the
\* contract the design states for it: channel-coupled, monotonic, 0 |-> 0,
\* non-negative scene-linear input mapped below 1.
tonemap(c) ==
    LET peak == Max2(c.r, Max2(c.g, c.b))
        den  == FAdd(FromInt(1), peak)
    IN  acescg(FDiv(c.r, den), FDiv(c.g, den), FDiv(c.b, den))

RECURSIVE ISqrtIn(_, _, _)
\* the s in lo..hi-1 with s*s <= a < (s+1)*(s+1), given lo*lo <= a < hi*hi
ISqrtIn(a, lo, hi) ==
    IF hi - lo <= 1 THEN lo
    ELSE LET mid == (lo + hi) \div 2
         IN  IF mid * mid <= a THEN ISqrtIn(a, mid, hi) ELSE ISqrtIn(a, lo, mid)

\* convert::<EncodedSrgb>() followed by to_u8(), for one channel.  Also from
\* the colstodian crate: the transfer curve is taken as a gamma of 2 on the
\* channel clamped to [0, 1] and cut to 12 fractional bits, then rounded to
\* the nearest of 0..255.
EncodedSrgbU8(t) ==
    LET k == IF t.n <= 0 THEN 0
             ELSE IF t.n >= t.d THEN 4096
             ELSE IF t.d >= 4096 THEN t.n \div (t.d \div 4096)
             ELSE t.n * (4096 \div t.d)
    IN  (ISqrtIn(65025 * k, 0, 16321) + 32) \div 64

\* `f as u8`: truncation toward zero, saturating, NaN to 0
AsU8(f) ==
    IF f.k = "nan" THEN 0
    ELSE IF f.k = "inf" THEN (IF f.n > 0 THEN 255 ELSE 0)
    ELSE IF f.n <= 0 THEN 0
    ELSE IF f.n \div f.d > 255 THEN 255
    ELSE f.n \div f.d

\* AlphaU8 without the scale: alpha as u8
AlphaU8_unscaled(alpha) == AsU8(alpha)

\* (255 as f32 * alpha) as u8
AlphaU8(alpha) == AsU8(FMul(FromInt(255), alpha))

\* the i-th chunk of chunks_exact(4)
Chunk(buf, i) == <<buf[4 * i], buf[4 * i + 1], buf[4 * i + 2], buf[4 * i + 3]>>

\* the body of the encoding loop: the rgba written for one f32_pixel
EncodePixel(f32_pixel) ==
    LET rendered_color == acescg(f32_pixel[1], f32_pixel[2], f32_pixel[3])
        tonemapped == tonemap(rendered_color)
        alpha == f32_pixel[4]
    IN  <<EncodedSrgbU8(tonemapped.r), EncodedSrgbU8(tonemapped.g),
          EncodedSrgbU8(tonemapped.b), AlphaU8(alpha)>>

\* ZipSource with the two iterators one chunk apart
ZipSource_previous(buf, i) == Chunk(buf, IF i > 0 THEN i - 1 ELSE 0)

\* the pixel of the scene-linear buffer that the zip pairs with display pixel i
ZipSource(buf, i) == Chunk(buf, i)

\* the encoding loop over zip(chunks_exact(4), chunks_exact_mut(4))
DisplayEncode(buf) ==
    [j \in DOMAIN buf |-> EncodePixel(ZipSource(buf, j \div 4))[(j % 4) + 1]]

---------------------------------------------------------------------------
(* Strings, as sequences of characters *)

\* String::from("sample_file")
SampleFile == <<"s", "a", "m", "p", "l", "e", "_", "f", "i", "l", "e">>

\* format!("{file_name}.exr")
FormatExr(name) == name \o <<".", "e", "x", "r">>

\* the characters the text field can receive, and the names built from them
Alphabet == {"a", "."}

Names == UNION {[1..n -> Alphabet] : n \in 0..MaxNameLen}

\* image::Handle::from_pixels(width, height, pixels); run is the call of
\* render_bg_image that produced the pixels
FromPixels(width, height, pixels, run) ==
    [width |-> width, height |-> height, pixels |-> pixels, run |-> run]

NoImage == FromPixels(0, 0, <<>>, 0)

NoBody == [x |-> -1, y |-> -1, u |-> NaN, v |-> NaN,
           rendered_color |-> acescg(NaN, NaN, NaN)]

PixelSlots == 0..(RENDER_BUFFER_WIDTH * RENDER_BUFFER_HEIGHT - 1)

---------------------------------------------------------------------------
(* The program: main() runs ApplicationState::new(), which calls            *)
(* render_bg_image(), and then the event loop delivers messages to update() *)

\* the variables of the stand-alone encoder runs and fit_range calls
AppIdle ==
    /\ enc_in = <<>>
    /\ enc_out = <<>>
    /\ fit_args = <<>>
    /\ fit_outcome = [kind |-> "none"]

\* new() has set file_name and entered render_bg_image, whose buffer is zeroed
Init ==
    /\ pc = "synth"
    /\ iter = LoopFirst
    /\ index = 0
    /\ linear_render_buffer = [j \in 0..(RENDER_BUFFER_SIZE - 1) |-> FromInt(0)]
    /\ body = NoBody
    /\ written = [s \in PixelSlots |-> <<>>]
    /\ display_buffer = [j \in 0..(RENDER_BUFFER_SIZE - 1) |-> 0]
    /\ render_calls = 1
    /\ file_name = SampleFile
    /\ file_name_with_ext = <<>>
    /\ rendered_image = NoImage
    /\ stderr = <<>>
    /\ files = {}
    /\ AppIdle

appVars == <<file_name, file_name_with_ext, rendered_image, stderr, files>>

aloneVars == <<enc_in, enc_out, fit_args, fit_outcome>>

\* one iteration of the synthesizer's loops; an index outside the buffer panics
SynthPixel ==
    /\ pc = "synth"
    /\ IF index + 3 >= RENDER_BUFFER_SIZE
       THEN /\ pc' = "panic"
            /\ UNCHANGED <<iter, index, linear_render_buffer, body, written>>
       ELSE /\ body' = LoopBody(iter.x, iter.y)
            /\ linear_render_buffer' =
                  [linear_render_buffer EXCEPT ![index + 0] = body'.rendered_color.r,
                                               ![index + 1] = body'.rendered_color.g,
                                               ![index + 2] = body'.rendered_color.b,
                                               ![index + 3] = OpaqueAlpha]
            /\ index' = index + 4
            /\ written' = [written EXCEPT ![index \div 4] = Append(@, <<iter.x, iter.y>>)]
            /\ iter' = LoopNext(iter)
            /\ pc' = IF LoopDone(iter') THEN "encode" ELSE "synth"
    /\ UNCHANGED <<display_buffer, render_calls>>
    /\ UNCHANGED appVars
    /\ UNCHANGED aloneVars

\* the scene linear to display conversion, and the return of display_buffer
Encode ==
    /\ pc = "encode"
    /\ display_buffer' = DisplayEncode(linear_render_buffer)
    /\ pc' = "new"
    /\ UNCHANGED <<iter, index, linear_render_buffer, body, written, render_calls>>
    /\ UNCHANGED appVars
    /\ UNCHANGED aloneVars

\* the rest of new(): the image handle and the ApplicationState
New ==
    /\ pc = "new"
    /\ rendered_image' = FromPixels(RENDER_BUFFER_WIDTH, RENDER_BUFFER_HEIGHT,
                                    display_buffer, render_calls)
    /\ file_name_with_ext' = FormatExr(file_name)
    /\ pc' = "ready"
    /\ UNCHANGED <<iter, index, linear_render_buffer, body, written, display_buffer,
                   render_calls, file_name, stderr, files>>
    /\ UNCHANGED aloneVars

renderVars == <<pc, iter, index, linear_render_buffer, body, written, display_buffer,
                render_calls>>

RenderingLine == <<"Rendering in the background...">>

\* update(), arm ApplicationMessage::RenderPressed
UpdateRenderPressed ==
    /\ stderr' = Append(stderr, RenderingLine)
    /\ UNCHANGED <<file_name, file_name_with_ext, rendered_image, files>>
    /\ UNCHANGED renderVars

\* UpdateFileNameChanged without the line that reformats file_name_with_ext
UpdateFileNameChanged_stale_ext(new_name) ==
    /\ file_name' = new_name
    /\ stderr' = stderr \o <<(<<"New name: ", new_name>>),
                             (<<"New file name: ", file_name'>>)>>
    /\ UNCHANGED <<file_name_with_ext, rendered_image, files>>
    /\ UNCHANGED renderVars

\* update(), arm ApplicationMessage::FileNameChanged(new_name)
UpdateFileNameChanged(new_name) ==
    /\ file_name' = new_name
    /\ file_name_with_ext' = FormatExr(file_name')
    /\ stderr' = stderr \o <<(<<"New name: ", new_name>>),
                             (<<"New file name: ", file_name'>>)>>
    /\ UNCHANGED <<rendered_image, files>>
    /\ UNCHANGED renderVars

\* UpdateSaveFilePressed with the write it announces
UpdateSaveFilePressed_writes ==
    /\ stderr' = Append(stderr, <<"Saving ", file_name_with_ext, " to disk..">>)
    /\ files' = files \cup {file_name_with_ext}
    /\ UNCHANGED <<file_name, file_name_with_ext, rendered_image>>
    /\ UNCHANGED renderVars

\* update(), arm ApplicationMessage::SaveFilePressed
UpdateSaveFilePressed ==
    /\ stderr' = Append(stderr, <<"Saving ", file_name_with_ext, " to disk..">>)
    /\ UNCHANGED <<file_name, file_name_with_ext, rendered_image, files>>
    /\ UNCHANGED renderVars

\* the event loop delivers a press of the Render button
RenderPressed ==
    /\ pc = "ready"
    /\ Len(stderr) + 1 <= MaxLog
    /\ UpdateRenderPressed
    /\ UNCHANGED aloneVars

\* the event loop delivers an edit of the text field
FileNameChanged ==
    /\ pc = "ready"
    /\ Len(stderr) + 2 <= MaxLog
    /\ \E new_name \in Names : UpdateFileNameChanged(new_name)
    /\ UNCHANGED aloneVars

\* the event loop delivers a press of the Save button
SaveFilePressed ==
    /\ pc = "ready"
    /\ Len(stderr) + 1 <= MaxLog
    /\ UpdateSaveFilePressed
    /\ UNCHANGED aloneVars

Next ==
    \/ SynthPixel
    \/ Encode
    \/ New
    \/ RenderPressed
    \/ FileNameChanged
    \/ SaveFilePressed

Spec == Init /\ [][Next]_vars

---------------------------------------------------------------------------
(* fit_range on its own: the arguments are drawn from -1..FitMax *)

FitVals == (-1)..FitMax

\* the state of the program's own variables while a function is run on its own
AppAtRest ==
    /\ pc = "alone"
    /\ iter = LoopFirst
    /\ index = 0
    /\ linear_render_buffer = <<>>
    /\ body = NoBody
    /\ written = <<>>
    /\ display_buffer = <<>>
    /\ render_calls = 0
    /\ file_name = <<>>
    /\ file_name_with_ext = <<>>
    /\ rendered_image = NoImage
    /\ stderr = <<>>
    /\ files = {}

FitInit ==
    /\ AppAtRest
    /\ enc_in = <<>>
    /\ enc_out = <<>>
    /\ fit_args \in [x : FitVals, imin : FitVals, imax : FitVals,
                     omin : FitVals, omax : FitVals]
    /\ fit_outcome = [kind |-> "none"]

\* a call of fit_range: the function has no error path, it returns its value
CallFitRange ==
    /\ fit_outcome.kind = "none"
    /\ fit_outcome' = [kind |-> "returned",
                       value |-> fit_range(FromInt(fit_args.x), FromInt(fit_args.imin),
                                           FromInt(fit_args.imax), FromInt(fit_args.omin),
                                           FromInt(fit_args.omax))]
    /\ UNCHANGED <<fit_args, enc_in, enc_out>>
    /\ UNCHANGED renderVars
    /\ UNCHANGED appVars

FitNext == CallFitRange

FitSpec == FitInit /\ [][FitNext]_vars

---------------------------------------------------------------------------
(* The display encoder on its own: two scene-linear buffers, encoded apart *)

Half == Fin(1, 2)

\* scene-linear pixels: black, pure red, half-transparent grey, an HDR orange,
\* a dim green
Palette ==
    { <<FromInt(0), FromInt(0), FromInt(0), FromInt(1)>>,
      <<FromInt(1), FromInt(0), FromInt(0), FromInt(1)>>,
      <<Half, Half, Half, Half>>,
      <<FromInt(2), FromInt(1), FromInt(0), FromInt(1)>>,
      <<FromInt(0), Fin(1, 4), FromInt(0), FromInt(0)>> }

\* the flat buffer of the pixels px[0], px[1], ..
Flat(px) == [j \in 0..(4 * EncPixels - 1) |-> px[j \div 4][(j % 4) + 1]]

LinearBuffers == {Flat(px) : px \in [0..(EncPixels - 1) -> Palette]}

ZeroDisplay == [j \in 0..(4 * EncPixels - 1) |-> 0]

EncInit ==
    /\ AppAtRest
    /\ enc_in \in [1..2 -> LinearBuffers]
    /\ enc_out = [r \in 1..2 |-> [done |-> FALSE, buf |-> ZeroDisplay]]
    /\ fit_args = <<>>
    /\ fit_outcome = [kind |-> "none"]

\* the encoding loop of render_bg_image run on buffer r
EncodeRun(r) ==
    /\ ~enc_out[r].done
    /\ enc_out' = [enc_out EXCEPT ![r] = [done |-> TRUE, buf |-> DisplayEncode(enc_in[r])]]
    /\ UNCHANGED <<enc_in, fit_args, fit_outcome>>
    /\ UNCHANGED renderVars
    /\ UNCHANGED appVars

EncNext == \E r \in 1..2 : EncodeRun(r)

EncSpec == EncInit /\ [][EncNext]_vars

---------------------------------------------------------------------------
(* Properties *)

One == FromInt(1)

Zero == FromInt(0)

PureRed == acescg(One, Zero, Zero)

Ran == body # NoBody

Rendered == pc \in {"encode", "new", "ready"}

Encoded == pc \in {"new", "ready"}

LastLine == stderr[Len(stderr)]

\* C1: once update(RenderPressed) has run, rendered_image is the result of a
\* run of render_bg_image made for that message, not the one built at startup.
C1_RenderPressedReplacesImage ==
    (pc = "ready" /\ stderr # <<>> /\ LastLine = RenderingLine)
        => (render_calls > 1 /\ rendered_image.run = render_calls)

\* C2, as stated: the pixel computed for (x = 0, y = height - 1) has u = 0 and
\* v = 0 and is pure red, with a zero blue channel.
C2_TopLeftIsPureRed ==
    (Ran /\ body.x = 0 /\ body.y = RENDER_BUFFER_HEIGHT - 1)
        => (body.u = Zero /\ body.v = Zero /\ body.rendered_color = PureRed)

\* C2, amended: the pixel computed for (x = 0, y = 0) has u = 0 and v = 0 and is
\* pure red (1, 0, 0), with a zero blue channel, and that is what the buffer
\* holds for it.
C2_OriginIsPureRed ==
    (Ran /\ body.x = 0 /\ body.y = 0)
        => /\ body.u = Zero
           /\ body.v = Zero
           /\ body.rendered_color = PureRed
           /\ body.rendered_color.b = Zero
           /\ Chunk(linear_render_buffer, (index \div 4) - 1) = <<One, Zero, Zero, One>>

C2_Witness == Ran /\ body.x = 0 /\ body.y = 0 /\ pc = "synth"

\* C3: a call of fit_range with in_min = in_max ends in an error, it does not
\* return a value.
C3_EqualRangeIsAnError ==
    (fit_outcome.kind # "none" /\ fit_args.imin = fit_args.imax)
        => fit_outcome.kind = "error"

\* C4: every pixel the synthesizer has written has alpha exactly 1.0 in slot
\* index + 3; the loop writes all width * height of them; and every fourth
\* byte of the encoded buffer, as returned and as held by the image, is 255.
C4_AlphaOpaque ==
    /\ \A s \in PixelSlots :
          written[s] # <<>> => linear_render_buffer[4 * s + 3] = One
    /\ Rendered => \A s \in PixelSlots : linear_render_buffer[4 * s + 3] = One
    /\ Encoded => \A s \in PixelSlots : display_buffer[4 * s + 3] = 255
    /\ pc = "ready" => \A s \in PixelSlots : rendered_image.pixels[4 * s + 3] = 255

C4_Witness ==
    /\ pc = "ready"
    /\ \A s \in PixelSlots : rendered_image.pixels[4 * s + 3] = 255
    /\ \E s \in PixelSlots : rendered_image.pixels[4 * s] # 255

\* C5: for every (x, y) the synthesizer visits, u and v are finite and lie in
\* [0, 1): exactly 0 at coordinate 0, strictly below 1 up to width - 1 and
\* height - 1.
C5_UnitRange ==
    Ran => /\ IsFinite(body.u) /\ FLe(Zero, body.u) /\ FLt(body.u, One)
           /\ IsFinite(body.v) /\ FLe(Zero, body.v) /\ FLt(body.v, One)
           /\ (body.x = 0 => body.u = Zero)
           /\ (body.y = 0 => body.v = Zero)
           /\ (body.x > 0 => FLt(Zero, body.u))
           /\ (body.y > 0 => FLt(Zero, body.v))

C5_Witness ==
    /\ Ran
    /\ body.x = RENDER_BUFFER_WIDTH - 1
    /\ body.y = RENDER_BUFFER_HEIGHT - 1
    /\ FLt(Zero, body.u) /\ FLt(body.u, One)

\* C6: in every state of the application, from new() on and after any
\* messages, file_name_with_ext is file_name followed by ".exr".
C6_NameWithExt ==
    pc = "ready" =>
        /\ Len(file_name_with_ext) = Len(file_name) + 4
        /\ SubSeq(file_name_with_ext, 1, Len(file_name)) = file_name
        /\ SubSeq(file_name_with_ext, Len(file_name) + 1, Len(file_name) + 4)
              = <<".", "e", "x", "r">>

C6_Witness ==
    /\ pc = "ready"
    /\ file_name = <<".", "a">>
    /\ file_name_with_ext = <<".", "a", ".", "e", "x", "r">>
    /\ \E i \in 1..Len(stderr) : stderr[i] = RenderingLine
    /\ \E i \in 1..Len(stderr) : stderr[i][1] = "Saving "

\* a step in which update() handled SaveFilePressed: it logged "Saving .."
SaveStep ==
    /\ Len(stderr') = Len(stderr) + 1
    /\ stderr'[Len(stderr')][1] = "Saving "

\* C7: handling SaveFilePressed leaves file_name, file_name_with_ext and
\* rendered_image as they were, and no file is ever produced.
C7_SaveIsStub ==
    /\ [](files = {})
    /\ [][SaveStep => UNCHANGED <<file_name, file_name_with_ext, rendered_image, files>>]_vars

C7_Witness ==
    /\ pc = "ready"
    /\ files = {}
    /\ Len(stderr) >= 3
    /\ stderr[1][1] = "New name: "
    /\ \A i \in 3..Len(stderr) : stderr[i][1] = "Saving "
    /\ Len(stderr) = MaxLog

BothEncoded == enc_out[1].done /\ enc_out[2].done

\* C8: when two scene-linear buffers agree on the four channels of pixel i,
\* their encodings agree on the four bytes of pixel i, whatever the other
\* pixels hold; equal buffers encode to equal buffers.
C8_Pointwise ==
    BothEncoded =>
        /\ \A i \in 0..(EncPixels - 1) :
              Chunk(enc_in[1], i) = Chunk(enc_in[2], i)
                  => Chunk(enc_out[1].buf, i) = Chunk(enc_out[2].buf, i)
        /\ enc_in[1] = enc_in[2] => enc_out[1].buf = enc_out[2].buf

C8_Witness ==
    /\ BothEncoded
    /\ \E i, j \in 0..(EncPixels - 1) :
          /\ Chunk(enc_in[1], i) = Chunk(enc_in[2], i)
          /\ Chunk(enc_out[1].buf, i) = Chunk(enc_out[2].buf, i)
          /\ Chunk(enc_out[1].buf, i) # <<0, 0, 0, 0>>
          /\ Chunk(enc_in[1], j) # Chunk(enc_in[2], j)
          /\ Chunk(enc_out[1].buf, j) # Chunk(enc_out[2].buf, j)

\* the slot of the output that holds the pixel of coordinates c = <<x, y>>
SlotOf(c) == (RENDER_BUFFER_HEIGHT - 1 - c[2]) * RENDER_BUFFER_WIDTH + c[1]

\* C9: the synthesizer never indexes at or past width * height * 4 and ends
\* with index equal to it; every pixel slot is written exactly once; the pixel
\* of (x, y) lands in slot (height - 1 - y) * width + x, so row 0 holds
\* y = height - 1.
C9_LoopFillsBuffer ==
    /\ pc # "panic"
    /\ DOMAIN linear_render_buffer = 0..(RENDER_BUFFER_SIZE - 1)
    /\ index <= RENDER_BUFFER_SIZE
    /\ pc = "synth" => /\ index + 3 < RENDER_BUFFER_SIZE
                       /\ index = 4 * SlotOf(<<iter.x, iter.y>>)
    /\ Rendered => index = RENDER_BUFFER_SIZE
    /\ \A s \in PixelSlots :
          /\ Len(written[s]) = (IF 4 * s < index THEN 1 ELSE 0)
          /\ written[s] # <<>> =>
                /\ written[s][1][1] \in 0..(RENDER_BUFFER_WIDTH - 1)
                /\ written[s][1][2] \in 0..(RENDER_BUFFER_HEIGHT - 1)
                /\ SlotOf(written[s][1]) = s
                /\ (s < RENDER_BUFFER_WIDTH => written[s][1][2] = RENDER_BUFFER_HEIGHT - 1)

C9_Witness ==
    /\ pc = "encode"
    /\ index = RENDER_BUFFER_SIZE
    /\ \A s \in PixelSlots : Len(written[s]) = 1
    /\ written[0] = <<(<<0, RENDER_BUFFER_HEIGHT - 1>>)>>

\* the colour (1 - u/2 - v/2, u/2, v/2) for u = x / width, v = y / height
Expected(c) ==
    acescg(Fin(2 * RENDER_BUFFER_WIDTH * RENDER_BUFFER_HEIGHT
                 - c[1] * RENDER_BUFFER_HEIGHT - c[2] * RENDER_BUFFER_WIDTH,
               2 * RENDER_BUFFER_WIDTH * RENDER_BUFFER_HEIGHT),
           Fin(c[1], 2 * RENDER_BUFFER_WIDTH),
           Fin(c[2], 2 * RENDER_BUFFER_HEIGHT))

InUnit(a) == IsFinite(a) /\ FLe(Zero, a) /\ FLe(a, One)

SumsToOne(c) ==
    c.r.n * c.g.d * c.b.d + c.g.n * c.r.d * c.b.d + c.b.n * c.r.d * c.g.d
        = c.r.d * c.g.d * c.b.d

\* C10: every synthesized pixel has colour (1 - u/2 - v/2, u/2, v/2) with
\* u = x / width and v = y / height: each channel is in [0, 1], the three sum
\* to 1, and no value written exceeds 1.0.
C10_GradientFormula ==
    /\ Ran => /\ body.u = Fin(body.x, RENDER_BUFFER_WIDTH)
              /\ body.v = Fin(body.y, RENDER_BUFFER_HEIGHT)
              /\ body.rendered_color = Expected(<<body.x, body.y>>)
    /\ \A s \in PixelSlots :
          written[s] # <<>> =>
              LET c == acescg(linear_render_buffer[4 * s], linear_render_buffer[4 * s + 1],
                              linear_render_buffer[4 * s + 2])
              IN  /\ c = Expected(written[s][1])
                  /\ InUnit(c.r) /\ InUnit(c.g) /\ InUnit(c.b)
                  /\ SumsToOne(c)
    /\ \A j \in DOMAIN linear_render_buffer : FLe(linear_render_buffer[j], One)

C10_Witness ==
    /\ Ran
    /\ body.x = RENDER_BUFFER_WIDTH - 1
    /\ body.y = RENDER_BUFFER_HEIGHT - 1
    /\ body.rendered_color.g # Zero
    /\ body.rendered_color.b # Zero
    /\ body.rendered_color = Expected(<<body.x, body.y>>)

====
